---- MODULE Spec2Model ----
(***************************************************************************)
(* A model of crunch, the command line texture packer: crunch_main of      *)
(* crunch/main.cpp, the fingerprint functions of crunch/hash.cpp, and the  *)
(* one-page packer (packer.cpp, MaxRectsBinPack.cpp, bitmap.cpp) as the    *)
(* specification describes it.                                             *)
(*                                                                         *)
(* The state is the process (the module-level statics of main.cpp and the  *)
(* position inside crunch_main), the disk (input files, <output>.hash,     *)
(* <output><i>.png, the manifests) and a few history variables that the    *)
(* properties read.                                                        *)
(***************************************************************************)
EXTENDS Integers, Sequences, FiniteSets, TLC

VARIABLES
    pc,             \* position inside crunch_main, or "idle" / "exited"
    optSize, optPadding, optXml, optBinary, optJson, optPremultiply,
    optTrim, optVerbose, optForce, optUnique, optRotate,
    bitmaps,        \* static vector<Bitmap*> bitmaps
    packers,        \* static vector<Packer*> packers
    argv,           \* the arguments of the current (or last) call
    inputs,         \* local vector<string> inputs
    newHash,        \* local size_t newHash
    files,          \* disk: the input files
    hashFile,       \* disk: contents of <output>.hash, or NoFile
    pngs,           \* disk: the i for which <output><i>.png exists
    manifests,      \* disk: which of .bin .xml .json exist
    runs,           \* history: number of calls of crunch_main so far
    outcome,        \* history: how the current (or last) call ended
    hashed,         \* history: the files HashFile was applied to
    loaded,         \* history: the bitmaps LoadBitmap created in this call
    firstPage,      \* history: Len(packers) when this call started packing
    lastPassed      \* history: the most recent call that passed the gate

opts == <<optSize, optPadding, optXml, optBinary, optJson, optPremultiply,
          optTrim, optVerbose, optForce, optUnique, optRotate>>
globals == <<bitmaps, packers>>
disk == <<hashFile, pngs, manifests>>
history == <<runs, outcome, hashed, loaded, firstPage, lastPassed>>
vars == <<pc, opts, globals, argv, inputs, newHash, files, disk, history>>

\* Bound on the number of calls of crunch_main in one behaviour.
MaxRuns == 2

NoFile == "<none>"

Range(q) == {q[i] : i \in 1..Len(q)}

Max(a, b) == IF a >= b THEN a ELSE b
Min(a, b) == IF a <= b THEN a ELSE b

(***************************************************************************)
(* size_t: a 64-bit word is four 16-bit limbs, least significant first.    *)
(***************************************************************************)
LimbBase == 2 ^ 16
Zero == <<0, 0, 0, 0>>

RECURSIVE XorBits(_, _, _)
XorBits(a, b, n) ==
    IF n = 0 THEN 0
    ELSE ((a + b) % 2) + 2 * XorBits(a \div 2, b \div 2, n - 1)

\* exclusive or of two 4-bit values, tabulated
Xor4 == [a \in 0..15 |-> [b \in 0..15 |-> XorBits(a, b, 4)]]

Xor16(a, b) ==
    Xor4[a % 16][b % 16]
      + 16 * Xor4[(a \div 16) % 16][(b \div 16) % 16]
      + 256 * Xor4[(a \div 256) % 16][(b \div 256) % 16]
      + 4096 * Xor4[a \div 4096][b \div 4096]

\* The operators on words bind their arguments once (x \in {e}), so that an
\* argument is computed one time however often the body reads it.
WXor(u, v) ==
    CHOOSE r \in { [i \in 1..4 |-> Xor16(p[1][i], p[2][i])] :
                   p \in {<<u, v>>} } : TRUE

\* the sums of the limbs with the carries c[i] into limb i
AddLimbs(a, b) ==
    LET c2 == (a[1] + b[1]) \div LimbBase
        c3 == (a[2] + b[2] + c2) \div LimbBase
        c4 == (a[3] + b[3] + c3) \div LimbBase
    IN  <<(a[1] + b[1]) % LimbBase, (a[2] + b[2] + c2) % LimbBase,
          (a[3] + b[3] + c3) % LimbBase, (a[4] + b[4] + c4) % LimbBase>>

WAdd(u, v) ==
    CHOOSE r \in { AddLimbs(p[1], p[2]) : p \in {<<u, v>>} } : TRUE

WShl6(u) ==
    CHOOSE r \in { [i \in 1..4 |-> ((w[i] * 64) % LimbBase)
                       + (IF i > 1 THEN w[i - 1] \div 1024 ELSE 0)] :
                   w \in {u} } : TRUE

WShr2(u) ==
    CHOOSE r \in { [i \in 1..4 |-> (w[i] \div 4)
                       + (IF i < 4 THEN (w[i + 1] % 4) * 16384 ELSE 0)] :
                   w \in {u} } : TRUE

\* 0x9e3779b9
Golden == <<31161, 40503, 0, 0>>

(***************************************************************************)
(* std::hash<std::string> is the host library's: the values below are the  *)
(* ones libstdc++ (x86-64) gives for the strings of the model.  "^@" is    *)
(* the one-byte string holding '\0'.                                       *)
(***************************************************************************)
NUL == "^@"

hasher(v) ==
    CASE v = "out" -> <<37005, 8031, 62569, 1672>>
      [] v = "d" -> <<13429, 17495, 2796, 51494>>
      [] v = "a.png" -> <<20077, 40840, 841, 57785>>
      [] v = "d,a.png" -> <<41860, 13665, 21405, 60792>>
      [] v = "n.txt" -> <<46639, 37971, 50909, 40601>>
      [] v = "-s64" -> <<12330, 6268, 8412, 42171>>
      [] v = "-s65" -> <<49907, 19704, 22983, 18976>>
      [] v = "-r" -> <<27743, 24604, 39464, 27104>>
      [] v = "-u" -> <<32410, 64304, 7818, 3653>>
      [] v = "-x" -> <<27962, 28667, 41303, 50318>>
      [] v = "-p0" -> <<17774, 417, 17241, 21532>>
      [] v = "-t" -> <<21024, 22481, 62541, 57498>>
      [] v = "-f" -> <<32406, 47202, 46369, 16567>>
      [] v = "--bogus" -> <<55066, 37184, 32451, 3063>>
      [] v = "^@" -> <<13849, 54662, 60966, 27913>>
      [] v = "imgA" -> <<8588, 35761, 13361, 27507>>
      [] v = "imgB" -> <<14713, 11045, 55316, 52605>>
      [] v = "imgC" -> <<19437, 15309, 21360, 56174>>
      [] v = "imgE" -> <<5032, 37274, 62345, 62436>>
      [] v = "text" -> <<6742, 28895, 36929, 51622>>
      [] v = "imgA^@" -> <<52409, 31157, 36406, 50770>>
      [] v = "imgB^@" -> <<20169, 23818, 21818, 14720>>
      [] v = "imgC^@" -> <<31329, 37131, 15477, 22000>>
      [] v = "imgE^@" -> <<41471, 22261, 30652, 27720>>
      [] v = "text^@" -> <<4131, 7937, 4788, 48263>>

\* hash ^= hasher(v) + 0x9e3779b9 + (hash<<6) + (hash>>2)
HashCombine(hash, v) ==
    CHOOSE r \in { WXor(h, WAdd(WAdd(WAdd(hasher(v), Golden), WShl6(h)),
                                WShr2(h))) : h \in {hash} } : TRUE

HashString(hash, str) == HashCombine(hash, str)

(***************************************************************************)
(* Decimal text of a word (stream << hash) and back (ss >> hash).          *)
(***************************************************************************)
Digits == "0123456789"
Digit(d) == SubSeq(Digits, d + 1, d + 1)
DigitVal(c) == CHOOSE d \in 0..9 : Digit(d) = c
IsDigit(c) == \E d \in 0..9 : Digit(d) = c

RECURSIVE to_string(_)
to_string(n) ==
    IF n < 10 THEN Digit(n) ELSE to_string(n \div 10) \o Digit(n % 10)

\* one step of long division by ten: <<quotient, remainder>>
DivLimbs(w) ==
    LET c4 == w[4]
        c3 == (c4 % 10) * LimbBase + w[3]
        c2 == (c3 % 10) * LimbBase + w[2]
        c1 == (c2 % 10) * LimbBase + w[1]
    IN  << <<c1 \div 10, c2 \div 10, c3 \div 10, c4 \div 10>>, c1 % 10 >>

DivMod10(w) == CHOOSE r \in { DivLimbs(v) : v \in {w} } : TRUE

RECURSIVE WordToDecimal(_)
WordToDecimal(w) ==
    CHOOSE r \in { IF qr[1] = Zero THEN Digit(qr[2])
                   ELSE WordToDecimal(qr[1]) \o Digit(qr[2]) :
                   qr \in {DivMod10(w)} } : TRUE

WMax == <<65535, 65535, 65535, 65535>>

\* w * 10 + d, or WMax once the value no longer fits (num_get stores the
\* largest value on overflow)
MulLimbs(w, d) ==
    LET s1 == w[1] * 10 + d
        s2 == w[2] * 10 + (s1 \div LimbBase)
        s3 == w[3] * 10 + (s2 \div LimbBase)
        s4 == w[4] * 10 + (s3 \div LimbBase)
    IN  IF w = WMax \/ s4 >= LimbBase THEN WMax
        ELSE <<s1 % LimbBase, s2 % LimbBase, s3 % LimbBase, s4 % LimbBase>>

MulAdd10(w, d) == CHOOSE r \in { MulLimbs(v, d) : v \in {w} } : TRUE

RECURSIVE DecimalToWord(_, _)
DecimalToWord(str, acc) ==
    IF str = "" \/ ~IsDigit(SubSeq(str, 1, 1)) THEN acc
    ELSE DecimalToWord(SubSeq(str, 2, Len(str)),
                       MulAdd10(acc, DigitVal(SubSeq(str, 1, 1))))

\* a SaveHash that writes the hash as a 32-bit value
SaveHashTruncated(hash) == WordToDecimal(<<hash[1], hash[2], 0, 0>>)

\* void SaveHash(size_t hash, const string& file)
SaveHash(hash) == WordToDecimal(hash)

\* bool LoadHash(size_t& hash, const string& file): the stream opens when
\* the file exists; a file written by SaveHash always starts with a digit.
LoadHash(file) ==
    IF file = NoFile THEN [ok |-> FALSE, hash |-> Zero]
    ELSE [ok |-> TRUE, hash |-> DecimalToWord(file, Zero)]

(***************************************************************************)
(* Command lines.  argv[0] is the program name; TLA+ sequences start at 1, *)
(* so C's argv[i] is argv[i + 1] here and argc is Len(argv).               *)
(***************************************************************************)
OptLists ==
    { <<>>, <<"-s64">>, <<"-s64", "-r">>, <<"-s64", "-u", "-x">>,
      <<"-s64", "-t">>, <<"-s64", "-t", "-p0">>, <<"-s64", "-f">>,
      <<"--bogus">>, <<"-s65">> }

CmdLines ==
    { <<"crunch", "out", "d">> \o o : o \in OptLists }
      \cup { <<"crunch", "out", "d,a.png", "-s64">>,
             <<"crunch", "out", "n.txt">>,
             <<"crunch", "out">> }

\* arg.find(p) == 0
StartsWith(s, p) == Len(s) >= Len(p) /\ SubSeq(s, 1, Len(p)) = p
\* arg.substr(n)
Substr(s, n) == SubSeq(s, n + 1, Len(s))

\* -1 stands for the exit(EXIT_FAILURE) after "invalid size"
GetPackSize(str) ==
    CASE str = "4096" -> 4096
      [] str = "2048" -> 2048
      [] str = "1024" -> 1024
      [] str = "512" -> 512
      [] str = "256" -> 256
      [] str = "128" -> 128
      [] str = "64" -> 64
      [] OTHER -> -1

\* -1 stands for the exit(EXIT_FAILURE) after "invalid padding value"
GetPadding(str) ==
    IF \E i \in 0..16 : str = to_string(i)
    THEN CHOOSE i \in 0..16 : str = to_string(i)
    ELSE -1

\* stringstream ss(argv[2]); while (ss.good()) getline(ss, inputStr, ',')
RECURSIVE SplitInputs(_, _)
SplitInputs(str, cur) ==
    IF str = "" THEN <<cur>>
    ELSE IF SubSeq(str, 1, 1) = ","
         THEN <<cur>> \o SplitInputs(Substr(str, 1), "")
         ELSE SplitInputs(Substr(str, 1), cur \o SubSeq(str, 1, 1))

(***************************************************************************)
(* The options.  o is the record of the eleven option statics; st is "ok", *)
(* "return" (unexpected argument) or "exit" (exit() inside GetPackSize or  *)
(* GetPadding).                                                            *)
(***************************************************************************)
OptionsNow ==
    [size |-> optSize, padding |-> optPadding, xml |-> optXml,
     binary |-> optBinary, json |-> optJson, premultiply |-> optPremultiply,
     trim |-> optTrim, verbose |-> optVerbose, force |-> optForce,
     unique |-> optUnique, rotate |-> optRotate]

\* static storage is zero-initialised
ZeroOptions ==
    [size |-> 0, padding |-> 0, xml |-> FALSE, binary |-> FALSE,
     json |-> FALSE, premultiply |-> FALSE, trim |-> FALSE,
     verbose |-> FALSE, force |-> FALSE, unique |-> FALSE, rotate |-> FALSE]

\* the assignments before the option loop; optRotate is not among them
ResetOptions(o) ==
    [o EXCEPT !.size = 4096, !.padding = 1, !.xml = FALSE, !.binary = FALSE,
              !.json = FALSE, !.premultiply = FALSE, !.trim = FALSE,
              !.verbose = FALSE, !.force = FALSE, !.unique = FALSE]

SetNumber(o, field, n) ==
    IF n = -1 THEN [o |-> o, st |-> "exit"]
    ELSE [o |-> [o EXCEPT ![field] = n], st |-> "ok"]

ParseArg(o, arg) ==
    LET ok(p) == [o |-> p, st |-> "ok"]
    IN  IF arg = "-d" \/ arg = "--default"
            THEN ok([o EXCEPT !.xml = TRUE, !.premultiply = TRUE,
                              !.trim = TRUE, !.unique = TRUE])
        ELSE IF arg = "-x" \/ arg = "--xml" THEN ok([o EXCEPT !.xml = TRUE])
        ELSE IF arg = "-b" \/ arg = "--binary"
            THEN ok([o EXCEPT !.binary = TRUE])
        ELSE IF arg = "-j" \/ arg = "--json" THEN ok([o EXCEPT !.json = TRUE])
        ELSE IF arg = "-p" \/ arg = "--premultiply"
            THEN ok([o EXCEPT !.premultiply = TRUE])
        ELSE IF arg = "-t" \/ arg = "--trim" THEN ok([o EXCEPT !.trim = TRUE])
        ELSE IF arg = "-v" \/ arg = "--verbose"
            THEN ok([o EXCEPT !.verbose = TRUE])
        ELSE IF arg = "-f" \/ arg = "--force"
            THEN ok([o EXCEPT !.force = TRUE])
        ELSE IF arg = "-u" \/ arg = "--unique"
            THEN ok([o EXCEPT !.unique = TRUE])
        ELSE IF arg = "-r" \/ arg = "--rotate"
            THEN ok([o EXCEPT !.rotate = TRUE])
        ELSE IF StartsWith(arg, "--size")
            THEN SetNumber(o, "size", GetPackSize(Substr(arg, 6)))
        ELSE IF StartsWith(arg, "-s")
            THEN SetNumber(o, "size", GetPackSize(Substr(arg, 2)))
        ELSE IF StartsWith(arg, "--pad")
            THEN SetNumber(o, "padding", GetPadding(Substr(arg, 5)))
        ELSE IF StartsWith(arg, "-p")
            THEN SetNumber(o, "padding", GetPadding(Substr(arg, 2)))
        ELSE [o |-> o, st |-> "return"]

\* for (int i = 3; i < argc; ++i): i is the position in the TLA+ sequence
RECURSIVE ParseOptions(_, _, _)
ParseOptions(o, av, i) ==
    IF i > Len(av) THEN [o |-> o, st |-> "ok"]
    ELSE LET r == ParseArg(o, av[i])
         IN  IF r.st = "ok" THEN ParseOptions(r.o, av, i + 1) ELSE r

(***************************************************************************)
(* The input files.  The directory d holds two .png files and one text     *)
(* file; a.png and n.txt are single files beside it.  A file is its byte   *)
(* string.                                                                 *)
(***************************************************************************)
PngSlots == {"d/x.png", "d/y.png"}

Disks ==
    { f \in [PngSlots -> {"imgA", "imgB", "imgC"}] :
        /\ f["d/x.png"] \in {"imgA", "imgB"}
        /\ f["d/y.png"] \in {"imgA", "imgC"} }

FileBytes(fs, p) ==
    CASE p \in PngSlots -> fs[p]
      [] p = "d/r.txt" -> "text"
      [] p = "a.png" -> "imgE"
      [] p = "n.txt" -> "text"
      [] OTHER -> NoFile

is_directory(p) == p = "d"
is_regular_file(fs, p) == FileBytes(fs, p) # NoFile

\* the regular files a recursive_directory_iterator of root visits
DirEntries(fs, root) ==
    IF root = "d"
    THEN {p \in PngSlots \cup {"d/r.txt"} : is_regular_file(fs, p)}
    ELSE {}

\* path.extension(): from the last dot of the file name on
RECURSIVE extension(_)
extension(p) ==
    IF p = "" THEN ""
    ELSE LET rest == extension(Substr(p, 1))
         IN  IF rest # "" THEN rest
             ELSE IF SubSeq(p, 1, 1) = "." THEN p ELSE ""

\* The iteration order of a directory is unspecified.  The model lets a
\* traversal run in ascending or in descending order of the paths.
Ascending == <<"d/r.txt", "d/x.png", "d/y.png">>
Descending == <<"d/y.png", "d/x.png", "d/r.txt">>

DirOrders(fs) ==
    { SelectSeq(o, LAMBDA p : p \in DirEntries(fs, "d")) :
      o \in {Ascending, Descending} }

(***************************************************************************)
(* HashFile opens the stream with ios::ate, so the get position is the end *)
(* of the file when ignore() runs: ignore() extracts what lies between the *)
(* get position and the end, and gcount() is that count.                   *)
(***************************************************************************)
AtePosition(bytes) == Len(bytes)

HashFileText(bytes) ==
    LET length == Len(bytes) - AtePosition(bytes)      \* filestream.gcount()
    IN  SubSeq(bytes, 1, length) \o NUL                \* buffer[length] = '\0'

\* void HashFile(size_t& hash, const string& file)
HashFile(hash, fs, file) == HashCombine(hash, HashFileText(FileBytes(fs, file)))

\* the files HashFiles(hash, root) applies HashFile to, visiting in order ord
HashFilesList(fs, root, ord) ==
    IF is_directory(root)
    THEN SelectSeq(ord, LAMBDA p : is_regular_file(fs, p) /\ extension(p) = ".png")
    ELSE IF is_regular_file(fs, root) /\ extension(root) = ".png"
         THEN <<root>> ELSE <<>>

\* the files the hashing loop of crunch_main applies HashFile to
RECURSIVE HashedFiles(_, _, _, _)
HashedFiles(fs, ins, i, ord) ==
    IF i > Len(ins) THEN <<>>
    ELSE (IF is_directory(ins[i]) THEN HashFilesList(fs, ins[i], ord)
          ELSE IF is_regular_file(fs, ins[i]) THEN <<ins[i]>>
          ELSE <<>>) \o HashedFiles(fs, ins, i + 1, ord)

RECURSIVE HashStrings(_, _, _)
HashStrings(hash, av, i) ==
    IF i > Len(av) THEN hash
    ELSE HashStrings(HashString(hash, av[i]), av, i + 1)

RECURSIVE HashFileSeq(_, _, _, _)
HashFileSeq(hash, fs, fl, i) ==
    IF i > Len(fl) THEN hash
    ELSE HashFileSeq(HashFile(hash, fs, fl[i]), fs, fl, i + 1)

\* size_t newHash = 0; HashString over argv[1..]; HashFiles / HashFile
Fingerprint(av, fs, ins, ord) ==
    HashFileSeq(HashStrings(Zero, av, 2), fs, HashedFiles(fs, ins, 1, ord), 1)

(***************************************************************************)
(* Bitmap (bitmap.cpp): the decoded image of a file, trimmed to the box of *)
(* its opaque pixels when trim is set.  pix stands for the pixel buffer:   *)
(* two buffers are equal exactly when they come from equal file bytes      *)
(* through the same processing.                                            *)
(***************************************************************************)
Decode(bytes) ==
    CASE bytes = "imgA" -> [w |-> 40, h |-> 40, fw |-> 40, fh |-> 40]
      [] bytes = "imgB" -> [w |-> 20, h |-> 40, fw |-> 20, fh |-> 40]
      [] bytes = "imgC" -> [w |-> 70, h |-> 64, fw |-> 64, fh |-> 64]
      [] bytes = "imgE" -> [w |-> 10, h |-> 10, fw |-> 10, fh |-> 10]

Bitmap(id, bytes, name, premultiply, trim) ==
    LET img == Decode(bytes)
    IN  [id |-> id, name |-> name,
         width |-> IF trim THEN img.fw ELSE img.w,
         height |-> IF trim THEN img.fh ELSE img.h,
         pix |-> <<bytes, premultiply, trim>>]

(***************************************************************************)
(* The free-rectangle store of one page (MaxRectsBinPack.cpp).             *)
(***************************************************************************)
Rect(x, y, w, h) == [x |-> x, y |-> y, w |-> w, h |-> h]

Intersects(a, b) ==
    /\ a.x < b.x + b.w /\ b.x < a.x + a.w
    /\ a.y < b.y + b.h /\ b.y < a.y + a.h

Contains(outer, inner) ==
    /\ outer.x <= inner.x /\ inner.x + inner.w <= outer.x + outer.w
    /\ outer.y <= inner.y /\ inner.y + inner.h <= outer.y + outer.h

\* the candidates of insert(w, h, allow_rotate): a free rectangle and an
\* orientation in which the rectangle fits
Candidates(free, w, h, allowRotate) ==
    { c \in (1..Len(free)) \X {FALSE, TRUE} :
        /\ c[2] => allowRotate
        /\ (IF c[2] THEN h ELSE w) <= free[c[1]].w
        /\ (IF c[2] THEN w ELSE h) <= free[c[1]].h }

\* <<short side fit, long side fit, position among the candidates>>
Score(free, w, h, c) ==
    LET dw == free[c[1]].w - (IF c[2] THEN h ELSE w)
        dh == free[c[1]].h - (IF c[2] THEN w ELSE h)
    IN  <<Min(dw, dh), Max(dw, dh), 2 * c[1] + (IF c[2] THEN 1 ELSE 0)>>

Better(s, t) ==
    \/ s[1] < t[1]
    \/ s[1] = t[1] /\ s[2] < t[2]
    \/ s[1] = t[1] /\ s[2] = t[2] /\ s[3] <= t[3]

\* the strips of G \ P: top, bottom, left, right, each the full extent of G
SplitFreeNode(G, P) ==
    IF ~Intersects(G, P) THEN <<G>>
    ELSE (IF P.y > G.y THEN <<Rect(G.x, G.y, G.w, P.y - G.y)>> ELSE <<>>)
      \o (IF P.y + P.h < G.y + G.h
          THEN <<Rect(G.x, P.y + P.h, G.w, G.y + G.h - (P.y + P.h))>>
          ELSE <<>>)
      \o (IF P.x > G.x THEN <<Rect(G.x, G.y, P.x - G.x, G.h)>> ELSE <<>>)
      \o (IF P.x + P.w < G.x + G.w
          THEN <<Rect(P.x + P.w, G.y, G.x + G.w - (P.x + P.w), G.h)>>
          ELSE <<>>)

RECURSIVE SplitAll(_, _, _)
SplitAll(free, P, i) ==
    IF i > Len(free) THEN <<>>
    ELSE (CHOOSE res \in {SplitFreeNode(G, P) : G \in {free[i]}} : TRUE)
         \o SplitAll(free, P, i + 1)

\* free[i] is kept: no other free rectangle contains it (of two equal
\* ones, the later goes)
Keep(free, i) ==
    \A j \in 1..Len(free) :
        (j # i /\ Contains(free[j], free[i])) => (free[j] = free[i] /\ i < j)

RECURSIVE PickKept(_, _, _)
PickKept(free, idx, i) ==
    IF i > Len(free) THEN <<>>
    ELSE (IF i \in idx THEN <<free[i]>> ELSE <<>>) \o PickKept(free, idx, i + 1)

\* drop every free rectangle contained in another one
PruneFreeList(list) ==
    CHOOSE res \in
      { PickKept(free, idx, 1) :
        free \in {list},
        idx \in {{i \in 1..Len(list) : Keep(list, i)}} } : TRUE

\* the best candidate: best short side fit, then long side fit, then the
\* first one met
BestCandidate(free, w, h, cs) ==
    CHOOSE c \in cs : \A d \in cs :
        \E sc \in {Score(free, w, h, c)}, sd \in {Score(free, w, h, d)} :
            Better(sc, sd)

\* place w x h on candidate cand: the placed rectangle, the new free list
InsertAt(list, w, h, cand) ==
    CHOOSE res \in
      { [ok |-> TRUE, rect |-> P, rot |-> c[2],
         free |-> PruneFreeList(SplitAll(free, P, 1))] :
        free \in {list}, c \in {cand},
        P \in {Rect(list[cand[1]].x, list[cand[1]].y,
                    IF cand[2] THEN h ELSE w, IF cand[2] THEN w ELSE h)} } : TRUE

\* insert(w, h, allow_rotate): the placed rectangle and the new free list
Insert(list, w, h, allowRotate) ==
    CHOOSE res \in
      { IF cs = {} THEN [ok |-> FALSE, free |-> free]
        ELSE InsertAt(free, ww, hh, BestCandidate(free, ww, hh, cs)) :
        free \in {list}, ww \in {w}, hh \in {h},
        cs \in {Candidates(list, w, h, allowRotate)} } : TRUE

(***************************************************************************)
(* Packer (packer.cpp): one page.  bitmaps and points are parallel; a      *)
(* point is the top-left corner, the rotation flag and dup, the position   *)
(* in points of the placement it is an alias of (0: none).                 *)
(***************************************************************************)
NewPacker(width, height, pad) ==
    [width |-> width, height |-> height, pad |-> pad,
     bitmaps |-> <<>>, points |-> <<>>]

EffW(b, pt) == IF pt.rot THEN b.height ELSE b.width
EffH(b, pt) == IF pt.rot THEN b.width ELSE b.height

\* the smallest halving of size that still holds the box
RECURSIVE Shrink(_, _)
Shrink(size, box) ==
    IF size > 1 /\ size \div 2 >= box THEN Shrink(size \div 2, box) ELSE size

\* What Pack does with one bitmap b: st is the page so far, its free list
\* and the unfit bitmaps in batch order.
PlaceBitmap(st, b, unique, rotate) ==
    LET pk == st.packer
        canon == {k \in 1..Len(pk.points) :
                     pk.points[k].dup = 0 /\ pk.bitmaps[k].pix = b.pix}
    IN  IF unique /\ canon # {}
        THEN LET k == CHOOSE k \in canon : \A m \in canon : k <= m
                 pt == [pk.points[k] EXCEPT !.dup = k]
             IN  [st EXCEPT !.packer.bitmaps = Append(@, b),
                            !.packer.points = Append(@, pt)]
        ELSE CHOOSE res \in
               { IF r.ok
                 THEN [st EXCEPT
                         !.packer.bitmaps = Append(@, b),
                         !.packer.points =
                             Append(@, [x |-> r.rect.x, y |-> r.rect.y,
                                        rot |-> r.rot, dup |-> 0]),
                         !.free = r.free]
                 ELSE [st EXCEPT !.unfit = <<b>> \o @] :
                 r \in {Insert(st.free, b.width + pk.pad, b.height + pk.pad,
                               rotate)} } : TRUE

\* One pass over the batch, from its large end (the batch is sorted by
\* ascending area).
RECURSIVE PackPass(_, _, _, _, _)
PackPass(st, batch, i, unique, rotate) ==
    IF i = 0 THEN st
    ELSE PackPass(
           CHOOSE res \in { PlaceBitmap(s, b, unique, rotate) :
                            s \in {st}, b \in {batch[i]} } : TRUE,
           batch, i - 1, unique, rotate)

\* Packer::Pack(bitmaps, verbose, unique, rotate): the page, and what is
\* left of the batch
Pack(packer, batch, unique, rotate) ==
    CHOOSE res \in
      { LET pk == st.packer
            n == Len(pk.points)
            right == {pk.points[k].x + EffW(pk.bitmaps[k], pk.points[k]) : k \in 1..n}
            bottom == {pk.points[k].y + EffH(pk.bitmaps[k], pk.points[k]) : k \in 1..n}
            ww == IF n = 0 THEN 0 ELSE CHOOSE m \in right : \A o \in right : o <= m
            hh == IF n = 0 THEN 0 ELSE CHOOSE m \in bottom : \A o \in bottom : o <= m
        IN  [packer |-> [pk EXCEPT !.width = Shrink(@, ww),
                                   !.height = Shrink(@, hh)],
             rest |-> st.unfit] :
        st \in { PackPass([packer |-> packer,
                           free |-> <<Rect(0, 0, packer.width, packer.height)>>,
                           unfit |-> <<>>],
                          batch, Len(batch), unique, rotate) } } : TRUE

(***************************************************************************)
(* main.cpp                                                                *)
(***************************************************************************)
SetOptions(o) ==
    /\ optSize' = o.size /\ optPadding' = o.padding /\ optXml' = o.xml
    /\ optBinary' = o.binary /\ optJson' = o.json
    /\ optPremultiply' = o.premultiply /\ optTrim' = o.trim
    /\ optVerbose' = o.verbose /\ optForce' = o.force
    /\ optUnique' = o.unique /\ optRotate' = o.rotate

\* string relativePath = (parent_path / stem); erase(pos, directory length)
RelativeName(directory, path) ==
    LET stem == SubSeq(path, 1, Len(path) - Len(extension(path)))
    IN  IF StartsWith(path, directory) THEN Substr(stem, Len(directory))
        ELSE stem

\* static void LoadBitmap(fs::path directory, fs::path path)
LoadBitmap(fs, run, directory, path) ==
    Bitmap(<<run, path>>, FileBytes(fs, path), RelativeName(directory, path),
           optPremultiply, optTrim)

RECURSIVE LoadEach(_, _, _, _, _)
LoadEach(fs, run, root, fl, i) ==
    IF i > Len(fl) THEN <<>>
    ELSE <<LoadBitmap(fs, run, root, fl[i])>> \o LoadEach(fs, run, root, fl, i + 1)

\* static void LoadBitmaps(const string& root), visiting a directory in
\* order ord: what it appends to bitmaps
LoadBitmaps(fs, run, root, ord) ==
    IF is_directory(root)
    THEN LoadEach(fs, run, root,
                  SelectSeq(ord, LAMBDA p : is_regular_file(fs, p)
                                            /\ extension(p) = ".png"), 1)
    ELSE IF is_regular_file(fs, root) /\ extension(root) = ".png"
         THEN <<LoadBitmap(fs, run, root, root)>>
         ELSE <<>>

\* the loading loop of crunch_main: LoadBitmaps for the directories
RECURSIVE LoadInputs(_, _, _, _, _)
LoadInputs(fs, run, ins, i, ord) ==
    IF i > Len(ins) THEN <<>>
    ELSE (IF is_directory(ins[i]) THEN LoadBitmaps(fs, run, ins[i], ord)
          ELSE <<>>) \o LoadInputs(fs, run, ins, i + 1, ord)

Area(b) == b.width * b.height

\* sort(bitmaps.begin(), bitmaps.end(), by area): std::sort is not stable,
\* so any arrangement in ascending order of area can come out
RECURSIVE SortOutcomes(_)
SortOutcomes(S) ==
    IF S = {} THEN {<<>>}
    ELSE UNION { { <<b>> \o t : t \in SortOutcomes(S \ {b}) } :
                 b \in {m \in S : \A o \in S : Area(m) <= Area(o)} }

\* a gate that tests optForce the wrong way round
GateHitForced(loadedOk, force, new, old) == loadedOk /\ force /\ new = old

\* if (!optForce && newHash == oldHash), inside if (LoadHash(...))
GateHit(loadedOk, force, new, old) == loadedOk /\ ~force /\ new = old

\* a loop that stops one bitmap early
LoopConditionOffByOne(bs) == Len(bs) > 1

\* while (!bitmaps.empty())
LoopCondition(bs) == bs # <<>>

\* a packer created without the configured padding
DriverPackerNoPad == NewPacker(optSize, optSize, 0)

\* new Packer(optSize, optSize, optPadding)
DriverPacker == NewPacker(optSize, optSize, optPadding)

\* a failure test that also fires on a page holding one bitmap
PackFailedAtOne(packer) == Len(packer.bitmaps) <= 1

\* a failure test that never fires
PackFailedNever(packer) == FALSE

\* if (packer->bitmaps.empty())
PackFailed(packer) == packer.bitmaps = <<>>

\* a removal that leaves the hash file in place
RemoveHashKept(h) == h

\* RemoveFile(outputName + ".hash")
RemoveHash(h) == NoFile

\* for (size_t i = 0; i < 16; ++i) RemoveFile(outputName + to_string(i) + ".png")
RemovePngs(ps) == ps \ (0..15)

ExitCode(oc) == IF oc \in {"ok", "unchanged"} THEN 0 ELSE 1

Init ==
    /\ pc = "idle"
    /\ optSize = 0 /\ optPadding = 0 /\ optXml = FALSE /\ optBinary = FALSE
    /\ optJson = FALSE /\ optPremultiply = FALSE /\ optTrim = FALSE
    /\ optVerbose = FALSE /\ optForce = FALSE /\ optUnique = FALSE
    /\ optRotate = FALSE
    /\ bitmaps = <<>> /\ packers = <<>>
    /\ argv = <<>> /\ inputs = <<>> /\ newHash = Zero
    /\ files \in Disks
    /\ hashFile = NoFile /\ pngs = {} /\ manifests = {}
    /\ runs = 0 /\ outcome = "none" /\ hashed = {} /\ loaded = {}
    /\ firstPage = 0 /\ lastPassed = [fp |-> Zero, done |-> FALSE, any |-> FALSE]

\* The fingerprints of the command lines that reach the hashing loop, on
\* each disk and for each traversal order, computed once.
FingerprintOf ==
    [av \in {c \in CmdLines : Len(c) >= 3} |->
        [fs \in Disks |->
            [ord \in DirOrders(fs) |->
                Fingerprint(av, fs, SplitInputs(av[3], ""), ord)]]]

\* crunch_main up to the gate: arguments, options, fingerprint, old hash.
\* old is what LoadHash gives for <output>.hash.
Call(av, fs, ord, old) ==
    /\ runs' = runs + 1 /\ argv' = av /\ files' = fs
    /\ loaded' = {} /\ firstPage' = Len(packers)
    /\ UNCHANGED <<globals, disk>>
    /\ IF Len(av) < 3
       THEN /\ outcome' = "usage" /\ pc' = "idle"
            /\ inputs' = <<>> /\ newHash' = Zero /\ hashed' = {}
            /\ UNCHANGED <<opts, lastPassed>>
       ELSE \E ins \in {SplitInputs(av[3], "")},
               r \in {ParseOptions(ResetOptions(OptionsNow), av, 4)} :
              /\ inputs' = ins
              /\ SetOptions(r.o)
              /\ IF r.st # "ok"
                 THEN /\ outcome' = IF r.st = "exit" THEN "exit" ELSE "badarg"
                      /\ pc' = IF r.st = "exit" THEN "exited" ELSE "idle"
                      /\ newHash' = Zero /\ hashed' = {}
                      /\ UNCHANGED lastPassed
                 ELSE \E h \in {FingerprintOf[av][fs][ord]} :
                        /\ newHash' = h
                        /\ hashed' = Range(HashedFiles(fs, ins, 1, ord))
                        /\ IF GateHit(old.ok, r.o.force, h, old.hash)
                           THEN /\ outcome' = "unchanged" /\ pc' = "idle"
                                /\ UNCHANGED lastPassed
                           ELSE /\ outcome' = "running" /\ pc' = "remove"
                                /\ lastPassed' = [fp |-> h, done |-> FALSE,
                                                  any |-> TRUE]

Start ==
    /\ pc = "idle" /\ runs < MaxRuns
    /\ \E old \in {LoadHash(hashFile)} :
         \E av \in CmdLines, fs \in Disks :
           \E ord \in DirOrders(fs) : Call(av, fs, ord, old)

\* //Remove old files
RemoveOldFiles ==
    /\ pc = "remove"
    /\ hashFile' = RemoveHash(hashFile)
    /\ manifests' = {}
    /\ pngs' = RemovePngs(pngs)
    /\ pc' = "load"
    /\ UNCHANGED <<opts, globals, argv, inputs, newHash, files, history>>

\* //Load the bitmaps from all the input files and directories, and
\* //Sort the bitmaps by area
LoadAndSort(ord) ==
    /\ pc = "load"
    /\ \E new \in {LoadInputs(files, runs, inputs, 1, ord)} :
           /\ loaded' = Range(new)
           /\ bitmaps' \in SortOutcomes(Range(bitmaps \o new))
    /\ pc' = "pack"
    /\ UNCHANGED <<opts, packers, argv, inputs, newHash, files, disk,
                   runs, outcome, hashed, firstPage, lastPassed>>

\* one iteration of //Pack the bitmaps
PackRound ==
    /\ pc = "pack" /\ LoopCondition(bitmaps)
    /\ \E r \in {Pack(DriverPacker, bitmaps, optUnique, optRotate)} :
           /\ bitmaps' = r.rest
           /\ packers' = Append(packers, r.packer)
           /\ IF PackFailed(r.packer)
              THEN pc' = "idle" /\ outcome' = "packfail"
              ELSE pc' = "pack" /\ UNCHANGED outcome
    /\ UNCHANGED <<opts, argv, inputs, newHash, files, disk,
                   runs, hashed, loaded, firstPage, lastPassed>>

\* //Save the atlas image, once the packing loop is left
SavePngs ==
    /\ pc = "pack" /\ ~LoopCondition(bitmaps)
    /\ pngs' = pngs \cup {i \in 0..(Len(packers) - 1) : TRUE}
    /\ pc' = "manifest"
    /\ UNCHANGED <<opts, globals, argv, inputs, newHash, files, hashFile,
                   manifests, history>>

\* //Save the atlas binary, xml, json
Requested ==
    (IF optBinary THEN {"bin"} ELSE {}) \cup (IF optXml THEN {"xml"} ELSE {})
        \cup (IF optJson THEN {"json"} ELSE {})

SaveManifests ==
    /\ pc = "manifest"
    /\ manifests' = manifests \cup Requested
    /\ pc' = "savehash"
    /\ UNCHANGED <<opts, globals, argv, inputs, newHash, files, hashFile,
                   pngs, history>>

\* //Save the new hash; return EXIT_SUCCESS
SaveNewHash ==
    /\ pc = "savehash"
    /\ hashFile' = SaveHash(newHash)
    /\ outcome' = "ok" /\ pc' = "idle"
    /\ lastPassed' = [lastPassed EXCEPT !.done = TRUE]
    /\ UNCHANGED <<opts, globals, argv, inputs, newHash, files, pngs,
                   manifests, runs, hashed, loaded, firstPage>>

\* The process ends (return from main, or exit()) and a new one starts: the
\* statics are zero-initialised again, the disk stays.
Restart ==
    /\ pc \in {"idle", "exited"} /\ runs > 0 /\ runs < MaxRuns
    /\ SetOptions(ZeroOptions)
    /\ bitmaps' = <<>> /\ packers' = <<>>
    /\ pc' = "idle"
    /\ UNCHANGED <<argv, inputs, newHash, files, disk, history>>

Next ==
    \/ Start
    \/ RemoveOldFiles
    \/ \E ord \in DirOrders(files) : LoadAndSort(ord)
    \/ PackRound
    \/ SavePngs
    \/ SaveManifests
    \/ SaveNewHash
    \/ Restart

Spec == Init /\ [][Next]_vars

\* A call that is in its packing loop goes on executing it.
FairSpec == Spec /\ WF_vars(PackRound) /\ WF_vars(SavePngs)

(***************************************************************************)
(* Vocabulary of the properties.                                           *)
(***************************************************************************)
\* the pages the packing loop of the current call has produced
ThisRunPages == (firstPage + 1)..Len(packers)

\* the call is between the start of the packing loop and its return
InRun == pc \in {"pack", "manifest", "savehash"}
\* the packing loop was left normally
LoopLeft == pc = "manifest"
\* the packing loop ended the call with the packing failure
LoopFailed == pc = "idle" /\ outcome = "packfail" /\ packers # <<>>

\* the slots <<page, position>> of the current call's pages
Slots == {sl \in ThisRunPages \X (1..8) : sl[2] <= Len(packers[sl[1]].bitmaps)}
SlotBitmap(sl) == packers[sl[1]].bitmaps[sl[2]]
SlotPoint(sl) == packers[sl[1]].points[sl[2]]
IsAlias(sl) == SlotPoint(sl).dup # 0

\* b alone fits on an empty page of the configured size
FitsEmptyPage(b) ==
    Insert(<<Rect(0, 0, optSize, optSize)>>, b.width + optPadding,
           b.height + optPadding, optRotate).ok

\* every bitmap the packing loop was given: what it placed and what is left
Batch == Range(bitmaps) \cup {SlotBitmap(sl) : sl \in Slots}

ForceAmong(av) == \E i \in 4..Len(av) : av[i] \in {"-f", "--force"}
RotateAmong(av) == \E i \in 4..Len(av) : av[i] \in {"-r", "--rotate"}

\* the fingerprint was computed in the current (or last) call
HashComputed == outcome \in {"running", "unchanged", "ok", "packfail"}

(***************************************************************************)
(* C1  Coverage.                                                           *)
(***************************************************************************)
\* C1: when the packing loop has ended and every bitmap loaded by the call
\* fits alone on an empty page, every loaded bitmap that is not an alias
\* occupies exactly one slot of the pages of this call.
Coverage ==
    ((LoopLeft \/ LoopFailed) /\ \A b \in loaded : FitsEmptyPage(b))
        => \A b \in loaded :
              \/ \E sl \in Slots : SlotBitmap(sl).id = b.id /\ IsAlias(sl)
              \/ Cardinality({sl \in Slots : SlotBitmap(sl).id = b.id}) = 1

\* two bitmaps that fit, spread over two pages
CoverageWitness ==
    /\ LoopLeft /\ Cardinality(loaded) = 2
    /\ \A b \in loaded : FitsEmptyPage(b)
    /\ Cardinality(ThisRunPages) = 2
    /\ \A sl \in Slots : ~IsAlias(sl)

(***************************************************************************)
(* C2  Separation on a page.                                               *)
(***************************************************************************)
SlotRect(sl) ==
    Rect(SlotPoint(sl).x, SlotPoint(sl).y,
         EffW(SlotBitmap(sl), SlotPoint(sl)), EffH(SlotBitmap(sl), SlotPoint(sl)))

\* Chebyshev distance of two rectangles
Gap(a, b) ==
    Max(Max(b.x - (a.x + a.w), a.x - (b.x + b.w)),
        Max(Max(b.y - (a.y + a.h), a.y - (b.y + b.h)), 0))

InsidePage(sl) ==
    /\ SlotRect(sl).x >= 0 /\ SlotRect(sl).y >= 0
    /\ SlotRect(sl).x + SlotRect(sl).w <= packers[sl[1]].width
    /\ SlotRect(sl).y + SlotRect(sl).h <= packers[sl[1]].height
    /\ packers[sl[1]].width <= optSize /\ packers[sl[1]].height <= optSize

Apart(s, t) ==
    /\ ~Intersects(SlotRect(s), SlotRect(t))
    /\ Gap(SlotRect(s), SlotRect(t)) >= optPadding

\* C2, as stated: any two distinct placements of a page of the call are
\* disjoint and at least the configured padding apart, and every placement
\* lies inside the page.
SeparationOfAllPlacements ==
    InRun => /\ \A sl \in Slots : InsidePage(sl)
             /\ \A s, t \in Slots :
                  (s[1] = t[1] /\ s[2] # t[2]) => Apart(s, t)

\* C2, amended: the same for any two distinct placements neither of which
\* is an alias.
SeparationOfPlacements ==
    InRun => /\ \A sl \in Slots : InsidePage(sl)
             /\ \A s, t \in Slots :
                  (s[1] = t[1] /\ s[2] # t[2] /\ ~IsAlias(s) /\ ~IsAlias(t))
                      => Apart(s, t)

\* a page with two placements, one of them rotated, and padding in force
SeparationWitness ==
    /\ InRun /\ optPadding >= 1
    /\ \E s, t \in Slots :
          /\ s[1] = t[1] /\ s[2] # t[2] /\ ~IsAlias(s) /\ ~IsAlias(t)
          /\ SlotPoint(s).rot

(***************************************************************************)
(* C3  The incremental gate.                                               *)
(***************************************************************************)
\* C3: a call whose arguments parse, without --force, that finds in
\* <output>.hash the fingerprint it computed, returns 0 at once: no output
\* file is deleted or written, no bitmap is loaded, no page is packed.
GateIsNoOp ==
    [][ ( /\ pc = "idle" /\ runs' = runs + 1
          /\ Len(argv') >= 3
          /\ ParseOptions(ResetOptions(OptionsNow), argv', 4).st = "ok"
          /\ ~ForceAmong(argv')
          /\ hashFile # NoFile
          /\ LoadHash(hashFile).hash = newHash' )
        => ( /\ pc' = "idle" /\ ExitCode(outcome') = 0
             /\ outcome' = "unchanged"
             /\ UNCHANGED <<hashFile, pngs, manifests, bitmaps, packers>>
             /\ loaded' = {} ) ]_vars

\* a gated call that left the outputs of an earlier call in place
GateWitness ==
    /\ pc = "idle" /\ outcome = "unchanged" /\ ~ForceAmong(argv)
    /\ hashFile # NoFile /\ LoadHash(hashFile).hash = newHash
    /\ pngs # {}

(***************************************************************************)
(* C4  Fingerprint idempotence.                                            *)
(***************************************************************************)
\* C4, as stated, for a call that follows one that returned 0: a call with
\* the arguments and the input files of the call before it finds the .hash
\* that call left, leaves it as it is and is a no-op.
IdempotentRuns ==
    [][ ( /\ pc = "idle" /\ runs >= 1 /\ runs' = runs + 1
          /\ argv' = argv /\ files' = files
          /\ ExitCode(outcome) = 0 )
        => ( /\ hashFile # NoFile /\ hashFile' = hashFile
             /\ outcome' = "unchanged"
             /\ UNCHANGED <<pngs, manifests, bitmaps, packers>> ) ]_vars

\* C4, amended: the same, when the call before returned 0 and --force is
\* not among the arguments.
IdempotentRunsAfterSuccess ==
    [][ ( /\ pc = "idle" /\ runs >= 1 /\ runs' = runs + 1
          /\ argv' = argv /\ files' = files
          /\ ExitCode(outcome) = 0 /\ ~ForceAmong(argv) )
        => ( /\ hashFile # NoFile /\ hashFile' = hashFile
             /\ outcome' = "unchanged"
             /\ UNCHANGED <<pngs, manifests, bitmaps, packers>> ) ]_vars

\* a second call that was gated by the hash the first one wrote
IdempotenceWitness ==
    /\ runs = 2 /\ pc = "idle" /\ outcome = "unchanged"
    /\ ~ForceAmong(argv) /\ SaveHash(newHash) = hashFile
    /\ hashed # {}

(***************************************************************************)
(* C5  The packing failure.                                                *)
(***************************************************************************)
\* larger than the page in every orientation the options allow
Oversize(b) ==
    /\ b.width > optSize \/ b.height > optSize
    /\ optRotate => (b.height > optSize \/ b.width > optSize)

\* C5, as stated: the packing loop ends with the failure exactly when some
\* bitmap loaded by the call is larger than the page.
FailureIffOversize ==
    (LoopLeft \/ LoopFailed)
        => (LoopFailed <=> \E b \in loaded : Oversize(b))

\* does not fit the page once inflated by the padding
OversizePadded(b) ==
    b.width + optPadding > optSize \/ b.height + optPadding > optSize

\* C5, amended: the packing loop ends with the failure exactly when some
\* bitmap it was given (loaded by this call or left in the bitmaps vector
\* by an earlier call of the process) exceeds the page size in width or
\* height once inflated by the padding.
FailureIffOversizePadded ==
    (LoopLeft \/ LoopFailed)
        => (LoopFailed <=> \E b \in Batch : OversizePadded(b))

\* a failure on a bitmap that is exactly as large as the page
FailureWitness ==
    /\ LoopFailed
    /\ \E b \in loaded : b.width = optSize /\ b.height = optSize
    /\ \A b \in loaded : ~Oversize(b)

(***************************************************************************)
(* C6  Single .png inputs.                                                 *)
(***************************************************************************)
\* C6: the files loaded as bitmaps are the .png files that contributed to
\* the fingerprint; a single .png input is among them.
SingleFilesLoaded ==
    pc = "pack"
        => {b.id[2] : b \in loaded} = {p \in hashed : extension(p) = ".png"}

(***************************************************************************)
(* C7  The fingerprint.                                                    *)
(***************************************************************************)
\* the .png files under an input path, in lexicographic order
PngsUnder(fs, root) ==
    IF is_directory(root)
    THEN SelectSeq(Ascending, LAMBDA p : p \in DirEntries(fs, root)
                                         /\ extension(p) = ".png")
    ELSE IF is_regular_file(fs, root) /\ extension(root) = ".png"
         THEN <<root>> ELSE <<>>

RECURSIVE FoldContents(_, _, _, _)
FoldContents(hash, fs, fl, i) ==
    IF i > Len(fl) THEN hash
    ELSE FoldContents(HashCombine(hash, FileBytes(fs, fl[i])), fs, fl, i + 1)

RECURSIVE FoldInputs(_, _, _, _)
FoldInputs(hash, fs, ins, i) ==
    IF i > Len(ins) THEN hash
    ELSE FoldInputs(FoldContents(hash, fs, PngsUnder(fs, ins[i]), 1),
                    fs, ins, i + 1)

\* the fold of the claim: the argument tokens, then the bytes of every .png
\* file of every input path
ContentFold(av, fs) ==
    FoldInputs(HashStrings(Zero, av, 2), fs, SplitInputs(av[3], ""), 1)

\* C7: the fingerprint of a call is the fold over the argument tokens and
\* the byte contents of the .png files, and of nothing else.
FingerprintIsContentFold ==
    HashComputed => newHash = ContentFold(argv, files)

(***************************************************************************)
(* C8  The packing loop terminates.                                        *)
(***************************************************************************)
\* C8: a step of the packing loop either is a round, which adds one page
\* and then either has fewer bitmaps left or ends the call with the
\* failure, or leaves the loop, which it does exactly when no bitmap is
\* left; and the loop is always left.
LoopTerminates ==
    /\ [][ pc = "pack"
             => \/ /\ bitmaps # <<>>
                   /\ Len(packers') = Len(packers) + 1
                   /\ \/ Len(bitmaps') < Len(bitmaps) /\ pc' = "pack"
                      \/ /\ bitmaps' = bitmaps /\ pc' = "idle"
                         /\ outcome' = "packfail" /\ ExitCode(outcome') = 1
                \/ bitmaps = <<>> /\ bitmaps' = <<>> /\ pc' = "manifest" ]_vars
    /\ (pc = "pack") ~> (pc # "pack")

\* a loop that took two rounds and was left with nothing to pack
LoopWitness ==
    /\ LoopLeft /\ bitmaps = <<>> /\ Cardinality(ThisRunPages) >= 2

(***************************************************************************)
(* C9  The hash file is removed first and written last.                    *)
(***************************************************************************)
\* C9: between calls, a hash file that exists holds the fingerprint of the
\* most recent call that passed the gate, and that call returned 0; pages
\* and manifests are written only while the hash file is absent; the hash
\* file is written only after all of them; a failed packing leaves none.
HashWrittenLast ==
    /\ []( (pc \in {"idle", "exited"} /\ hashFile # NoFile)
              => /\ lastPassed.any /\ lastPassed.done
                 /\ LoadHash(hashFile).hash = lastPassed.fp )
    /\ [][ /\ (~(pngs' \subseteq pngs) \/ ~(manifests' \subseteq manifests))
                => (hashFile = NoFile /\ hashFile' = NoFile)
           /\ (hashFile' # NoFile /\ hashFile' # hashFile)
                => /\ pc = "savehash" /\ outcome' = "ok"
                   /\ \A i \in 0..(Len(packers) - 1) : i \in pngs
                   /\ Requested \subseteq manifests
           /\ outcome' = "packfail" => hashFile' = NoFile ]_vars

\* a second call that failed to pack and left no hash file
HashWitness ==
    /\ runs = 2 /\ pc = "idle" /\ outcome = "packfail"
    /\ hashFile = NoFile /\ lastPassed.any /\ ~lastPassed.done

(***************************************************************************)
(* C10  Calls in one process.                                              *)
(***************************************************************************)
\* C10: what a call works with depends on its arguments and the disk only:
\* past the gate, rotation is on exactly when the arguments ask for it, and
\* no bitmap and no page of an earlier call is there.
CallsIndependent ==
    pc = "remove"
        => /\ optRotate = RotateAmong(argv)
           /\ bitmaps = <<>> /\ packers = <<>>

====
